---- MODULE Spec2Model ----
(***************************************************************************)
(* Model of the code generation + self-correction loop of                  *)
(* src/generators/code_generator.py: generate_code_with_llm, the model     *)
(* call wrapper _call_llm_for_code, the validator, CodeRunner.run_tests    *)
(* with its pytest output parser, and the template fallback generator.     *)
(*                                                                         *)
(* One behaviour is one generation request.  The Language Model and the    *)
(* test harness (file system, pytest subprocess) are the environment: each *)
(* call draws its outcome from a bounded set.                              *)
(***************************************************************************)
EXTENDS Integers, Sequences, FiniteSets, TLC

(***************************************************************************)
(* Bounds of the model                                                     *)
(***************************************************************************)
MaxRetriesBound == 2      \* max_retries ranges over 0..MaxRetriesBound
MaxUrlLen == 1            \* url ranges over strings of at most this length
MaxTests == 1             \* per-test result lines in one harness report
MaxCount == 1             \* largest count in an aggregate summary line
MaxCases == 2             \* test cases handed to the fallback generator
MaxNameLen == 2           \* characters of a test case name
MaxRuns == 2              \* run_tests invocations of one concurrent request
MaxBlocks == 3            \* test case blocks in one text given to parse_test_cases
MaxExtraElements == 2     \* page elements after the leading run of plain inputs
MaxExplorations == 3      \* explore_page calls on one TestingAgent

(***************************************************************************)
(* Program constants                                                       *)
(***************************************************************************)
MinCodeLen == 100         \* _call_llm_for_code: len(code) < 100 is rejected

None == [none |-> TRUE]

(***************************************************************************)
(* State of one generate_code_with_llm request                             *)
(***************************************************************************)
VARIABLES
    pc,                 \* position in generate_code_with_llm
    max_retries,        \* argument
    run_tests,          \* argument
    url,                \* argument
    attempt,            \* loop index
    code,               \* current code blob
    is_valid,           \* result of _validate_code in this iteration
    static_issues,      \* issues of _validate_code in this iteration
    execution_issues,   \* failure summary of this iteration's execution
    final_log,          \* last TestExecutionLog obtained, or None
    result,             \* the returned (code, log) pair, or None
    temp_dirs,          \* temporary workspaces that exist on disk
    llm_calls,          \* history: number of model calls made
    first_response,     \* history: the model's response to the first call
    validations,        \* history: number of _validate_code calls
    runs,               \* history: number of CodeRunner.run_tests invocations
    runner_status,      \* history: how the last run_tests invocation ended
    last_env,           \* history: what the harness did in the last invocation
    last_run,           \* history: the log the last invocation returned
    last_prompt,        \* history: the last repair prompt built
    failure_seen,       \* history: some execution of the request was not all_passed
    element,            \* argument of LocatorAnalyzer.analyze_element
    analysis,           \* its (strategy, locator) result, or None before the call
    base_code,          \* argument of apply_custom_instructions
    refine_response,    \* history: the model's response to the refinement call
    refined,            \* the code apply_custom_instructions returned, or None
    test_cases,         \* argument of _generate_fallback_code
    test_methods,       \* [defs |-> names of the test methods it defines], or None
    req_pc,             \* per concurrent request: position in its loop / run_tests
    req_runs,           \* per concurrent request: completed run_tests invocations
    runner_temp_dir,    \* per CodeRunner object: self.temp_dir (0: None)
    test_file_path,     \* per concurrent request: directory of its local test_file_path
    req_log,            \* per concurrent request: the local log of run_tests, or NoLog
    req_final_log,      \* per concurrent request: final_log, or NoLog
    req_result,         \* per concurrent request: the log it returned, or NoLog
    disk,               \* the directories under the system temporary directory
    foreign_access,     \* history: a request touched a workspace created by another
    blocks,             \* the test case blocks of the text given to parse_test_cases
    parsed,             \* [cases |-> the list parse_test_cases returned], or None
    page_elements,      \* the elements argument of _generate_fallback_code
    locator_methods,    \* [defs |-> the locator methods it generated], or None
    last_result,        \* PageExplorerTool.last_result, or None
    metrics_log,        \* TestingAgent.metrics_log (its length)
    explore_calls,      \* history: number of explore_page calls made
    explore_url,        \* history: the argument of the last explore_page call
    exploration         \* the ExplorationResult the last explore_page call returned

gen_vars == <<pc, max_retries, run_tests, url, attempt, code, is_valid, static_issues,
              execution_issues, final_log, result, temp_dirs, llm_calls, first_response,
              validations, runs, runner_status, last_env, last_run, last_prompt,
              failure_seen>>

loc_vars == <<element, analysis>>

ref_vars == <<base_code, refine_response, refined>>

fb_vars == <<test_cases, test_methods>>

conc_vars == <<req_pc, req_runs, runner_temp_dir, test_file_path, req_log, req_final_log,
               req_result, disk, foreign_access>>

parse_vars == <<blocks, parsed>>

fbl_vars == <<page_elements, locator_methods>>

agent_vars == <<last_result, metrics_log, explore_calls, explore_url, exploration>>

vars == <<gen_vars, loc_vars, ref_vars, fb_vars, conc_vars, parse_vars, fbl_vars,
          agent_vars>>

\* the variables outside one generate_code_with_llm request
not_gen_vars ==
    <<loc_vars, ref_vars, fb_vars, conc_vars, parse_vars, fbl_vars, agent_vars>>

\* the variables outside one analyze_element call
not_loc_vars ==
    <<gen_vars, ref_vars, fb_vars, conc_vars, parse_vars, fbl_vars, agent_vars>>

\* the variables outside one apply_custom_instructions call
not_ref_vars ==
    <<gen_vars, loc_vars, fb_vars, conc_vars, parse_vars, fbl_vars, agent_vars>>

\* the variables outside the test methods of one _generate_fallback_code call
not_fb_vars ==
    <<gen_vars, loc_vars, ref_vars, conc_vars, parse_vars, fbl_vars, agent_vars>>

\* the variables outside the concurrent requests
not_conc_vars ==
    <<gen_vars, loc_vars, ref_vars, fb_vars, parse_vars, fbl_vars, agent_vars>>

\* the variables outside one parse_test_cases call
not_parse_vars ==
    <<gen_vars, loc_vars, ref_vars, fb_vars, conc_vars, fbl_vars, agent_vars>>

\* the variables outside the locator methods of one _generate_fallback_code call
not_fbl_vars ==
    <<gen_vars, loc_vars, ref_vars, fb_vars, conc_vars, parse_vars, agent_vars>>

inputs == <<max_retries, run_tests, url>>

(***************************************************************************)
(* Inputs.  A url is a sequence of characters; "a" stands for any          *)
(* character without meaning in Python source, "Q" for a double quote.     *)
(***************************************************************************)
UrlChars == {"a", "Q"}

SeqsUpTo(S, n) == UNION {[1..k -> S] : k \in 0..n}

Urls == SeqsUpTo(UrlChars, MaxUrlLen)

(***************************************************************************)
(* Responses of the Language Model Collaborator to one call.               *)
(*   kind "raise": the call raises; "none": no content can be extracted;   *)
(*   "text": a string whose cleaned form (stripped, fences removed) has    *)
(*   length len, contains "import" / "def " as flagged, compiles iff       *)
(*   syntaxOk and draws validator warnings iff warn.                       *)
(***************************************************************************)
Lens == {0, MinCodeLen - 1, MinCodeLen}

Responses ==
    {[kind |-> "raise", len |-> 0, hasImport |-> FALSE, hasDef |-> FALSE,
      syntaxOk |-> FALSE, warn |-> FALSE],
     [kind |-> "none", len |-> 0, hasImport |-> FALSE, hasDef |-> FALSE,
      syntaxOk |-> FALSE, warn |-> FALSE]}
    \cup
    [kind : {"text"}, len : Lens, hasImport : BOOLEAN, hasDef : BOOLEAN,
     syntaxOk : BOOLEAN, warn : BOOLEAN]

(***************************************************************************)
(* Variant of _call_llm_for_code without the minimum-length check.         *)
(***************************************************************************)
call_llm_for_code_NoLengthCheck(resp, id) ==
    IF resp.kind = "raise" THEN None
    ELSE IF resp.kind = "none" \/ resp.len = 0 THEN None
    ELSE IF ~resp.hasImport /\ ~resp.hasDef THEN None
    ELSE [src |-> "llm", id |-> id, len |-> resp.len,
          syntaxOk |-> resp.syntaxOk, warn |-> resp.warn]

(***************************************************************************)
(* _call_llm_for_code: None when the call raises, nothing is extracted,    *)
(* the cleaned text is shorter than 100 characters or holds neither        *)
(* "import" nor "def "; otherwise the cleaned text.  id names the call     *)
(* that produced the blob.                                                 *)
(***************************************************************************)
call_llm_for_code(resp, id) ==
    IF resp.kind = "raise" THEN None
    ELSE IF resp.kind = "none" \/ resp.len = 0 THEN None
    ELSE IF resp.len < MinCodeLen THEN None
    ELSE IF ~resp.hasImport /\ ~resp.hasDef THEN None
    ELSE [src |-> "llm", id |-> id, len |-> resp.len,
          syntaxOk |-> resp.syntaxOk, warn |-> resp.warn]

(***************************************************************************)
(* CodeValidator.validate_syntax: compile() of the blob.  The blob is      *)
(* opaque text; syntaxOk records whether it compiles.                      *)
(***************************************************************************)
validate_syntax(blob) == blob.syntaxOk

(***************************************************************************)
(* _validate_code: syntax errors, then anti-pattern warnings and           *)
(* completeness issues, all in one list; ok iff the list is empty.         *)
(***************************************************************************)
validate_code(blob) ==
    LET syntax_errors == IF validate_syntax(blob) THEN <<>> ELSE <<"syntax error">>
        warnings == IF blob.warn THEN <<"warning">> ELSE <<>>
        all_issues == syntax_errors \o warnings
    IN  [is_valid |-> Len(all_issues) = 0, issues |-> all_issues]

(***************************************************************************)
(* Python's string-literal scanning of one line of the fallback template   *)
(* into which the url is interpolated.  mode "out": between tokens,        *)
(* "str": inside "...", "tri": inside a triple-quoted string.  The result  *)
(* is the mode at the end of the text, or "bad" when a character that is   *)
(* not a string literal follows a literal or a "..." string is left open.  *)
(***************************************************************************)
RECURSIVE Scan(_, _, _)
Scan(s, i, mode) ==
    IF mode = "out" THEN
        IF i > Len(s) THEN "out"
        ELSE IF s[i] = "Q" THEN
            IF i + 2 <= Len(s) /\ s[i+1] = "Q" /\ s[i+2] = "Q"
            THEN Scan(s, i + 3, "tri")
            ELSE Scan(s, i + 1, "str")
        ELSE "bad"
    ELSE IF mode = "str" THEN
        IF i > Len(s) THEN "bad"
        ELSE IF s[i] = "Q" THEN Scan(s, i + 1, "out")
        ELSE Scan(s, i + 1, "str")
    ELSE
        IF i > Len(s) THEN "tri"
        ELSE IF i + 2 <= Len(s) /\ s[i] = "Q" /\ s[i+1] = "Q" /\ s[i+2] = "Q"
        THEN Scan(s, i + 3, "out")
        ELSE Scan(s, i + 1, "tri")

(***************************************************************************)
(* Whether the fallback template compiles once the url is interpolated:    *)
(* into the module docstring (URL: {url}), into the WebPage docstring      *)
(* ("""Page Object Model for {url}""") and into self.url = "{url}".        *)
(***************************************************************************)
FallbackSyntaxOk(target) ==
    /\ Scan(target, 1, "tri") = "tri"
    /\ Scan(target \o <<"Q", "Q", "Q">>, 1, "tri") = "out"
    /\ Scan(<<"Q">> \o target \o <<"Q">>, 1, "out") = "out"

(***************************************************************************)
(* _generate_fallback_code: the template filled from the inputs; no model  *)
(* call.  The fixed text of the template alone is longer than MinCodeLen   *)
(* characters and the url is interpolated three times.                     *)
(***************************************************************************)
generate_fallback_code(target) ==
    [src |-> "fallback", id |-> 0, len |-> MinCodeLen + 3 * Len(target),
     syntaxOk |-> FallbackSyntaxOk(target), warn |-> FALSE]

(***************************************************************************)
(* The test harness as seen by CodeRunner.run_tests: whether mkdtemp and   *)
(* the file write succeed, how subprocess.run ends, what pytest printed    *)
(* (per-test status lines, else the counts of the summary line) and        *)
(* whether shutil.rmtree succeeds.                                         *)
(***************************************************************************)
Statuses == {"PASSED", "FAILED", "ERROR", "SKIPPED"}

NoSummary == [passed |-> 0, failed |-> 0, error |-> 0]

Summaries == [passed : 0..MaxCount, failed : 0..MaxCount, error : 0..MaxCount]

HarnessOutcomes ==
    {[mkdtemp |-> FALSE, write |-> FALSE, proc |-> "none", lines |-> <<>>,
      summary |-> NoSummary, rmtree |-> FALSE]}
    \cup
    [mkdtemp : {TRUE}, write : {FALSE}, proc : {"none"}, lines : {<<>>},
     summary : {NoSummary}, rmtree : BOOLEAN]
    \cup
    [mkdtemp : {TRUE}, write : {TRUE}, proc : {"timeout", "raise"}, lines : {<<>>},
     summary : {NoSummary}, rmtree : BOOLEAN]
    \cup
    [mkdtemp : {TRUE}, write : {TRUE}, proc : {"ok"},
     lines : SeqsUpTo(Statuses, MaxTests) \ {<<>>},
     summary : {NoSummary}, rmtree : BOOLEAN]
    \cup
    [mkdtemp : {TRUE}, write : {TRUE}, proc : {"ok"}, lines : {<<>>},
     summary : Summaries, rmtree : BOOLEAN]

(***************************************************************************)
(* Variant of the log construction that keeps using the log object of the  *)
(* previous invocation instead of a fresh one.                             *)
(***************************************************************************)
TestExecutionLog_Reused(stamp, dir, blob) ==
    IF final_log # None
    THEN final_log
    ELSE [timestamp |-> stamp, code_file |-> dir, code |-> blob.id,
          total_tests |-> 0, passed |-> 0, failed |-> 0, errors |-> 0, skipped |-> 0,
          test_results |-> <<>>, stderr |-> ""]

(***************************************************************************)
(* TestExecutionLog() as constructed at the top of run_tests.  timestamp   *)
(* is the number of the invocation, code the blob handed to it.            *)
(***************************************************************************)
TestExecutionLog(stamp, dir, blob) ==
    [timestamp |-> stamp, code_file |-> dir, code |-> blob.id,
     total_tests |-> 0, passed |-> 0, failed |-> 0, errors |-> 0, skipped |-> 0,
     test_results |-> <<>>, stderr |-> ""]

all_passed(log) == log.failed = 0 /\ log.errors = 0

RECURSIVE CountStatus(_, _)
CountStatus(lines, status) ==
    IF lines = <<>> THEN 0
    ELSE (IF Head(lines) = status THEN 1 ELSE 0) + CountStatus(Tail(lines), status)

(***************************************************************************)
(* TestResult built for one "test_x STATUS" line.                          *)
(***************************************************************************)
TestResult(status) ==
    [passed |-> (status = "PASSED"),
     error_type |-> IF status = "PASSED" THEN "" ELSE status]

(***************************************************************************)
(* CodeRunner._parse_pytest_output: one TestResult and one counter         *)
(* increment per status line; when no line matched, the counts of the      *)
(* summary line (passed, failed, error) and their sum as total.            *)
(***************************************************************************)
parse_pytest_output(lines, summary, log) ==
    LET counted ==
            [log EXCEPT
                !.test_results = log.test_results \o
                                 [i \in 1..Len(lines) |-> TestResult(lines[i])],
                !.passed = log.passed + CountStatus(lines, "PASSED"),
                !.failed = log.failed + CountStatus(lines, "FAILED"),
                !.errors = log.errors + CountStatus(lines, "ERROR"),
                !.skipped = log.skipped + CountStatus(lines, "SKIPPED")]
        total == Len(counted.test_results)
    IN  IF total # 0
        THEN [counted EXCEPT !.total_tests = total]
        ELSE LET summed ==
                    [counted EXCEPT
                        !.passed = IF summary.passed # 0 THEN summary.passed ELSE counted.passed,
                        !.failed = IF summary.failed # 0 THEN summary.failed ELSE counted.failed,
                        !.errors = IF summary.error # 0 THEN summary.error ELSE counted.errors]
             IN  [summed EXCEPT !.total_tests =
                    summed.passed + summed.failed + summed.errors + summed.skipped]

(***************************************************************************)
(* The log CodeRunner.run_tests returns once mkdtemp has succeeded: the    *)
(* parsed report, or errors = 1 with a message for TimeoutExpired and for  *)
(* any other exception raised inside the try block.                        *)
(***************************************************************************)
CodeRunner_run_tests(blob, env, dir, stamp) ==
    LET log == TestExecutionLog(stamp, dir, blob)
    IN  IF ~env.write
        THEN [log EXCEPT !.errors = 1, !.stderr = "Error running tests"]
        ELSE IF env.proc = "timeout"
        THEN [log EXCEPT !.errors = 1, !.stderr = "Test execution timed out"]
        ELSE IF env.proc = "raise"
        THEN [log EXCEPT !.errors = 1, !.stderr = "Error running tests"]
        ELSE parse_pytest_output(env.lines, env.summary, log)

(***************************************************************************)
(* TestExecutionLog.get_failure_summary                                    *)
(***************************************************************************)
get_failure_summary(log) ==
    IF \A i \in 1..Len(log.test_results) : log.test_results[i].passed
    THEN "All tests passed!"
    ELSE "test(s) failed"

(***************************************************************************)
(* _build_correction_prompt: the issue list, the execution results when a  *)
(* log is given and is not all_passed, and the current code.               *)
(***************************************************************************)
build_correction_prompt(blob, issues, execution_log) ==
    [issues |-> issues,
     results |-> IF execution_log # None /\ ~all_passed(execution_log)
                 THEN execution_log ELSE None,
     code |-> blob.id]

(***************************************************************************)
(* Variant of the loop bound that runs one iteration too many.             *)
(***************************************************************************)
LoopContinues_Inclusive(i, n) == i <= n

(***************************************************************************)
(* for attempt in range(max_retries)                                       *)
(***************************************************************************)
LoopContinues(i, n) == i < n

(***************************************************************************)
(* Variant of the break condition that never leaves the loop: every        *)
(* iteration ends with a repair call.                                      *)
(***************************************************************************)
LoopExit_Never(all_issues, run, log) == FALSE

(***************************************************************************)
(* The break condition of the self-correction loop                         *)
(***************************************************************************)
LoopExit(all_issues, run, log) ==
    Len(all_issues) = 0 /\ (~run \/ (log # None /\ all_passed(log)))

(***************************************************************************)
(* Variant of the final return that drops the log when it falls back.      *)
(***************************************************************************)
final_return_NoLogOnFallback(blob, target, log) ==
    IF validate_syntax(blob)
    THEN [code |-> blob, log |-> log]
    ELSE [code |-> generate_fallback_code(target), log |-> None]

(***************************************************************************)
(* Variant of the final return without the final syntax check.             *)
(***************************************************************************)
final_return_NoSyntaxCheck(blob, target, log) == [code |-> blob, log |-> log]

(***************************************************************************)
(* The final syntax check and the pair generate_code_with_llm returns      *)
(* after the loop.                                                         *)
(***************************************************************************)
final_return(blob, target, log) ==
    IF validate_syntax(blob)
    THEN [code |-> blob, log |-> log]
    ELSE [code |-> generate_fallback_code(target), log |-> log]

\* what one request starts from, apart from its arguments
GenStart ==
    /\ attempt = 0
    /\ code = None
    /\ is_valid = FALSE
    /\ static_issues = <<>>
    /\ execution_issues = <<>>
    /\ final_log = None
    /\ result = None
    /\ temp_dirs = {}
    /\ llm_calls = 0
    /\ first_response = None
    /\ validations = 0
    /\ runs = 0
    /\ runner_status = "idle"
    /\ last_env = None
    /\ last_run = None
    /\ last_prompt = None
    /\ failure_seen = FALSE

\* no generate_code_with_llm request is made
GenIdle ==
    /\ pc = "idle"
    /\ max_retries = 0
    /\ run_tests = FALSE
    /\ url = <<>>
    /\ GenStart

\* no analyze_element call is made
LocIdle == element = None /\ analysis = None

\* no apply_custom_instructions call is made
RefIdle == base_code = None /\ refine_response = None /\ refined = None

\* no fallback test methods are generated
FbIdle == test_cases = <<>> /\ test_methods = None

\* the two concurrent generate_code_with_llm requests
Requests == {1, 2}

\* names mkdtemp can give to a workspace: enough for every run to leak one
DirNames == 1..(Cardinality(Requests) * MaxRuns)

\* content of a test file: the code of run number run of request req
NoFile == [req |-> 0, run |-> 0]

\* a name under which no directory exists
NoDir == [exists |-> FALSE, creator |-> 0, file |-> NoFile]

\* no TestExecutionLog
NoLog == [req |-> 0, executed |-> NoFile]

\* no concurrent requests are made
ConcIdle ==
    /\ req_pc = [r \in Requests |-> "idle"]
    /\ req_runs = [r \in Requests |-> 0]
    /\ runner_temp_dir = [r \in Requests |-> 0]
    /\ test_file_path = [r \in Requests |-> 0]
    /\ req_log = [r \in Requests |-> NoLog]
    /\ req_final_log = [r \in Requests |-> NoLog]
    /\ req_result = [r \in Requests |-> NoLog]
    /\ disk = [d \in DirNames |-> NoDir]
    /\ foreign_access = FALSE

\* no parse_test_cases call is made
ParseIdle == blocks = <<>> /\ parsed = None

\* the variables outside one TestingAgent
not_agent_vars == <<gen_vars, loc_vars, ref_vars, fb_vars, conc_vars, parse_vars, fbl_vars>>

\* no TestingAgent is used
AgentIdle ==
    /\ last_result = None
    /\ metrics_log = 0
    /\ explore_calls = 0
    /\ explore_url = ""
    /\ exploration = None

\* no fallback locator methods are generated
FblIdle == page_elements = <<>> /\ locator_methods = None

\* every operation but the named one is idle
IdleExcept(op) ==
    /\ IF op = "gen" THEN TRUE ELSE GenIdle
    /\ IF op = "loc" THEN TRUE ELSE LocIdle
    /\ IF op = "ref" THEN TRUE ELSE RefIdle
    /\ IF op = "fb" THEN TRUE ELSE FbIdle
    /\ IF op = "conc" THEN TRUE ELSE ConcIdle
    /\ IF op = "parse" THEN TRUE ELSE ParseIdle
    /\ IF op = "fbl" THEN TRUE ELSE FblIdle
    /\ IF op = "agent" THEN TRUE ELSE AgentIdle

Init ==
    /\ pc = "generate"
    /\ max_retries \in 0..MaxRetriesBound
    /\ run_tests \in BOOLEAN
    /\ url \in Urls
    /\ GenStart
    /\ IdleExcept("gen")

(***************************************************************************)
(* Initial generation: one model call; on extraction failure the fallback  *)
(* code is returned at once with no log.                                   *)
(***************************************************************************)
Generate ==
    /\ pc = "generate"
    /\ \E resp \in Responses :
        LET extracted == call_llm_for_code(resp, llm_calls + 1)
        IN  /\ llm_calls' = llm_calls + 1
            /\ first_response' = resp
            /\ IF extracted = None
               THEN /\ result' = [code |-> generate_fallback_code(url), log |-> None]
                    /\ pc' = "done"
                    /\ code' = code
               ELSE /\ code' = extracted
                    /\ pc' = "loop"
                    /\ result' = result
    /\ UNCHANGED <<inputs, attempt, is_valid, static_issues, execution_issues,
                   final_log, temp_dirs, validations, runs, runner_status,
                   last_env, last_run, last_prompt, failure_seen>>
    /\ UNCHANGED not_gen_vars

(***************************************************************************)
(* Top of a loop iteration: static validation of the current code.         *)
(***************************************************************************)
Validate ==
    /\ pc = "loop"
    /\ LoopContinues(attempt, max_retries)
    /\ LET v == validate_code(code)
       IN  /\ is_valid' = v.is_valid
           /\ static_issues' = v.issues
           /\ pc' = IF run_tests /\ v.is_valid THEN "execute" ELSE "decide"
    /\ execution_issues' = <<>>
    /\ validations' = validations + 1
    /\ UNCHANGED <<inputs, attempt, code, final_log, result, temp_dirs, llm_calls,
                   first_response, runs, runner_status, last_env, last_run,
                   last_prompt, failure_seen>>
    /\ UNCHANGED not_gen_vars

(***************************************************************************)
(* final_log = runner.run_tests(code).  mkdtemp is called before the try   *)
(* block, so its failure leaves run_tests and the request as an exception. *)
(* Otherwise a log is returned, and the workspace is removed unless rmtree *)
(* fails (the failure is swallowed).                                       *)
(***************************************************************************)
Execute ==
    /\ pc = "execute"
    /\ \E env \in HarnessOutcomes :
        /\ last_env' = env
        /\ runs' = runs + 1
        /\ IF ~env.mkdtemp
           THEN /\ pc' = "raised"
                /\ runner_status' = "raised"
                /\ UNCHANGED <<final_log, last_run, execution_issues, temp_dirs,
                               failure_seen>>
           ELSE LET dir == runs + 1
                    log == CodeRunner_run_tests(code, env, dir, runs + 1)
                IN  /\ pc' = "decide"
                    /\ runner_status' = "returned"
                    /\ final_log' = log
                    /\ last_run' = log
                    /\ execution_issues' = IF ~all_passed(log)
                                           THEN <<get_failure_summary(log)>>
                                           ELSE <<>>
                    /\ temp_dirs' = IF env.rmtree THEN temp_dirs \ {dir}
                                    ELSE temp_dirs \cup {dir}
                    /\ failure_seen' = (failure_seen \/ ~all_passed(log))
    /\ UNCHANGED <<inputs, attempt, code, is_valid, static_issues, result, llm_calls,
                   first_response, validations, last_prompt>>
    /\ UNCHANGED not_gen_vars

(***************************************************************************)
(* Success exit of the loop (break).                                       *)
(***************************************************************************)
Break ==
    /\ pc = "decide"
    /\ LoopExit(static_issues \o execution_issues, run_tests, final_log)
    /\ pc' = "final"
    /\ UNCHANGED <<inputs, attempt, code, is_valid, static_issues, execution_issues,
                   final_log, result, temp_dirs, llm_calls, first_response,
                   validations, runs, runner_status, last_env, last_run,
                   last_prompt, failure_seen>>
    /\ UNCHANGED not_gen_vars

(***************************************************************************)
(* Self-correction: build the repair prompt from the current code, the     *)
(* issues and final_log, call the model, and take its code if usable.      *)
(***************************************************************************)
Repair ==
    /\ pc = "decide"
    /\ ~LoopExit(static_issues \o execution_issues, run_tests, final_log)
    /\ last_prompt' = build_correction_prompt(code, static_issues \o execution_issues,
                                              final_log)
    /\ \E resp \in Responses :
        LET corrected_code == call_llm_for_code(resp, llm_calls + 1)
        IN  code' = IF corrected_code # None THEN corrected_code ELSE code
    /\ llm_calls' = llm_calls + 1
    /\ attempt' = attempt + 1
    /\ pc' = "loop"
    /\ UNCHANGED <<inputs, is_valid, static_issues, execution_issues, final_log,
                   result, temp_dirs, first_response, validations, runs,
                   runner_status, last_env, last_run, failure_seen>>
    /\ UNCHANGED not_gen_vars

(***************************************************************************)
(* After the loop (break or retries exhausted): the final syntax check     *)
(* and the return.                                                         *)
(***************************************************************************)
Final ==
    /\ \/ pc = "final"
       \/ pc = "loop" /\ ~LoopContinues(attempt, max_retries)
    /\ result' = final_return(code, url, final_log)
    /\ pc' = "done"
    /\ UNCHANGED <<inputs, attempt, code, is_valid, static_issues, execution_issues,
                   final_log, temp_dirs, llm_calls, first_response, validations,
                   runs, runner_status, last_env, last_run, last_prompt,
                   failure_seen>>
    /\ UNCHANGED not_gen_vars

Next ==
    \/ Generate
    \/ Validate
    \/ Execute
    \/ Break
    \/ Repair
    \/ Final

Spec == Init /\ [][Next]_vars

(***************************************************************************)
(* The model call model(messages, stop_sequences=...) is made without a    *)
(* timeout: when the collaborator stalls, _call_llm_for_code neither       *)
(* returns nor raises.  This can happen at the generation call and at      *)
(* every repair call.  (A stall of the harness ends in TimeoutExpired      *)
(* after timeout + 30 seconds and is an outcome of Execute.)               *)
(***************************************************************************)
ModelCallStalls ==
    /\ \/ pc = "generate"
       \/ /\ pc = "decide"
          /\ ~LoopExit(static_issues \o execution_issues, run_tests, final_log)
    /\ pc' = "stalled"
    /\ llm_calls' = llm_calls + 1
    /\ UNCHANGED <<inputs, attempt, code, is_valid, static_issues, execution_issues,
                   final_log, result, temp_dirs, first_response, validations, runs,
                   runner_status, last_env, last_run, last_prompt, failure_seen>>
    /\ UNCHANGED not_gen_vars

NextLive ==
    \/ Generate
    \/ Validate
    \/ Execute
    \/ Break
    \/ Repair
    \/ Final
    \/ ModelCallStalls

\* The request is one sequential thread: it keeps running while it can.
SpecLive == Init /\ [][NextLive]_vars /\ WF_vars(NextLive)

(***************************************************************************)
(* LocatorAnalyzer.analyze_element                                         *)
(*                                                                         *)
(* Attribute values are sample strings; "" is an absent or empty           *)
(* attribute.  StrLen, Strip, StartsWithEmber and IsHexHyphen give the     *)
(* properties of the samples that the code inspects.                       *)
(***************************************************************************)
UuidLen == 36             \* re.match(r'^[a-f0-9-]{36}$', elem_id)
MaxTextLen == 50          \* len(elem_text) <= 50
ElementLimit == 15        \* for elem in elements[:15]

TestIds == {"", "login-btn"}

ElemIds == {"", "submit", "ember42", "uuid-lower-36", "hex-lower-35", "UUID-UPPER-36"}

AriaLabels == {"", "Close"}

Tags == {"", "button", "a", "input"}

Texts == {"", "   ", "Login", " Login ", "text-of-50", "text-of-51"}

Names == {"", "q"}

Types == {"", "submit"}

Elements ==
    [data_testid : TestIds, testid : TestIds, id : ElemIds, aria_label : AriaLabels,
     tag : Tags, text : Texts, name : Names, type : Types]

StrLen(str) ==
    CASE str = "" -> 0
      [] str = "   " -> 3
      [] str = "Login" -> 5
      [] str = " Login " -> 7
      [] str = "text-of-50" -> MaxTextLen
      [] str = "text-of-51" -> MaxTextLen + 1
      [] str = "submit" -> 6
      [] str = "ember42" -> 7
      [] str = "uuid-lower-36" -> UuidLen
      [] str = "hex-lower-35" -> UuidLen - 1
      [] str = "UUID-UPPER-36" -> UuidLen
      [] OTHER -> 1

\* str.strip()
Strip(str) ==
    CASE str = "   " -> ""
      [] str = " Login " -> "Login"
      [] OTHER -> str

\* elem_id.startswith('ember')
StartsWithEmber(str) == str = "ember42"

\* every character of the string is in [a-f0-9-]
IsHexHyphen(str) == str \in {"uuid-lower-36", "hex-lower-35"}

\* the LocatorStrategy enum
LocatorStrategy ==
    [TEST_ID |-> 1, ID |-> 2, ARIA |-> 3, NAME |-> 4, TEXT |-> 5, CSS |-> 6, XPATH |-> 7]

Locator(strategy, call, arg, extra) ==
    [strategy |-> strategy, call |-> call, arg |-> arg, extra |-> extra]

(***************************************************************************)
(* Variant of analyze_element whose id rule does not skip ids of the       *)
(* 36-character hex/hyphen shape.                                          *)
(***************************************************************************)
analyze_element_NoUuidCheck(e) ==
    LET elem_text == Strip(e.text)
        test_id == IF e.data_testid # "" THEN e.data_testid ELSE e.testid
    IN  IF test_id # "" THEN Locator("TEST_ID", "get_by_test_id", test_id, "")
        ELSE IF e.id # "" /\ ~StartsWithEmber(e.id)
        THEN Locator("ID", "locator#", e.id, "")
        ELSE IF e.aria_label # "" THEN Locator("ARIA", "get_by_label", e.aria_label, "")
        ELSE IF e.tag = "button" /\ elem_text # ""
        THEN Locator("ARIA", "get_by_role", "button", elem_text)
        ELSE IF e.tag = "a" /\ elem_text # ""
        THEN Locator("ARIA", "get_by_role", "link", elem_text)
        ELSE IF e.name # "" THEN Locator("NAME", "locator[name]", e.name, "")
        ELSE IF elem_text # "" /\ StrLen(elem_text) <= MaxTextLen
        THEN Locator("TEXT", "get_by_text", elem_text, "exact")
        ELSE IF e.tag # "" THEN Locator("CSS", "locator", e.tag, e.type)
        ELSE Locator("XPATH", "locator", "//element", "")

(***************************************************************************)
(* analyze_element: the chain of early returns, in source order.           *)
(***************************************************************************)
analyze_element(e) ==
    LET elem_text == Strip(e.text)
        test_id == IF e.data_testid # "" THEN e.data_testid ELSE e.testid
    IN  IF test_id # "" THEN Locator("TEST_ID", "get_by_test_id", test_id, "")
        ELSE IF e.id # "" /\ ~StartsWithEmber(e.id)
                /\ ~(IsHexHyphen(e.id) /\ StrLen(e.id) = UuidLen)
        THEN Locator("ID", "locator#", e.id, "")
        ELSE IF e.aria_label # "" THEN Locator("ARIA", "get_by_label", e.aria_label, "")
        ELSE IF e.tag = "button" /\ elem_text # ""
        THEN Locator("ARIA", "get_by_role", "button", elem_text)
        ELSE IF e.tag = "a" /\ elem_text # ""
        THEN Locator("ARIA", "get_by_role", "link", elem_text)
        ELSE IF e.name # "" THEN Locator("NAME", "locator[name]", e.name, "")
        ELSE IF elem_text # "" /\ StrLen(elem_text) <= MaxTextLen
        THEN Locator("TEXT", "get_by_text", elem_text, "exact")
        ELSE IF e.tag # "" THEN Locator("CSS", "locator", e.tag, e.type)
        ELSE Locator("XPATH", "locator", "//element", "")

InitLocator ==
    /\ element \in Elements
    /\ analysis = None
    /\ IdleExcept("loc")

AnalyzeElement ==
    /\ element # None
    /\ analysis = None
    /\ analysis' = analyze_element(element)
    /\ UNCHANGED <<element, not_loc_vars>>

NextLocator == AnalyzeElement

SpecLocator == InitLocator /\ [][NextLocator]_vars

(***************************************************************************)
(* apply_custom_instructions: one model call on the base code plus the     *)
(* user's instructions; the refined code is returned only if it was        *)
(* extracted and compiles, otherwise the base code.                        *)
(***************************************************************************)
BaseCodes ==
    {generate_fallback_code(u) : u \in Urls}
    \cup
    [src : {"llm"}, id : {0}, len : {MinCodeLen}, syntaxOk : BOOLEAN, warn : BOOLEAN]

\* Variant that returns the refined code without the syntax check.
apply_custom_instructions_NoSyntaxCheck(base, resp) ==
    LET refined_code == call_llm_for_code(resp, 1)
    IN  IF refined_code # None THEN refined_code ELSE base

apply_custom_instructions(base, resp) ==
    LET refined_code == call_llm_for_code(resp, 1)
    IN  IF refined_code # None /\ validate_syntax(refined_code)
        THEN refined_code
        ELSE base

InitRefine ==
    /\ base_code \in BaseCodes
    /\ refine_response = None
    /\ refined = None
    /\ IdleExcept("ref")

ApplyCustomInstructions ==
    /\ base_code # None
    /\ refined = None
    /\ \E resp \in Responses :
        /\ refine_response' = resp
        /\ refined' = apply_custom_instructions(base_code, resp)
    /\ UNCHANGED <<base_code, not_ref_vars>>

NextRefine == ApplyCustomInstructions

SpecRefine == InitRefine /\ [][NextRefine]_vars


(***************************************************************************)
(* The test methods of _generate_fallback_code.  A test case name is a     *)
(* sequence of characters: "a" a lower-case letter, "A" an upper-case      *)
(* letter, "1" a digit, "_" the underscore, "-" any character outside      *)
(* [a-zA-Z0-9_]; a test case may also have no name key.                    *)
(***************************************************************************)
NameChars == {"a", "A", "1", "_", "-"}

TestCaseNames == SeqsUpTo(NameChars, MaxNameLen)

TestCases ==
    [has_name : {TRUE}, name : TestCaseNames] \cup {[has_name |-> FALSE, name |-> <<>>]}

Digits == <<"0", "1", "2", "3", "4", "5", "6", "7", "8", "9">>

\* f"{n}" for a one-digit n
FormatInt(k) == <<Digits[k + 1]>>

\* "test_"
TestPrefix == <<"t", "e", "s", "t", "_">>

IsDigit(c) == \E k \in 1..Len(Digits) : Digits[k] = c

\* c matches [a-zA-Z0-9_]
IsIdentChar(c) == c \in {"a", "A", "_", "t", "e", "s"} \/ IsDigit(c)

\* str.lower() on one character
Lower(c) == IF c = "A" THEN "a" ELSE c

\* re.sub(r'[^a-zA-Z0-9_]', '_', name).lower()
Sanitize(name) ==
    [k \in 1..Len(name) |-> IF IsIdentChar(name[k]) THEN Lower(name[k]) ELSE "_"]

\* re.sub(r'_+', '_', name)
RECURSIVE CollapseUnderscores(_)
CollapseUnderscores(name) ==
    IF Len(name) <= 1 THEN name
    ELSE IF name[1] = "_" /\ name[2] = "_" THEN CollapseUnderscores(Tail(name))
    ELSE <<name[1]>> \o CollapseUnderscores(Tail(name))

\* name.strip('_')
RECURSIVE StripUnderscores(_)
StripUnderscores(name) ==
    IF name = <<>> THEN name
    ELSE IF name[1] = "_" THEN StripUnderscores(Tail(name))
    ELSE IF name[Len(name)] = "_" THEN StripUnderscores(SubSeq(name, 1, Len(name) - 1))
    ELSE name

\* the name of the test method of the test case at index idx (from 0),
\* without the test_ prefix of the def line
fallback_test_name(tc, idx) ==
    LET raw == IF tc.has_name THEN tc.name ELSE TestPrefix \o FormatInt(idx)
        test_name == StripUnderscores(CollapseUnderscores(Sanitize(raw)))
    IN  IF test_name = <<>> \/ IsDigit(test_name[1])
        THEN TestPrefix \o FormatInt(idx + 1)
        ELSE test_name

\* Variant that defines no method for a test case whose name has no
\* identifier characters.
fallback_test_methods_SkipUnnamed(cases) ==
    LET named == SelectSeq(cases,
                    LAMBDA tc : StripUnderscores(CollapseUnderscores(Sanitize(
                                    IF tc.has_name THEN tc.name ELSE TestPrefix))) # <<>>)
    IN  [k \in 1..Len(named) |-> TestPrefix \o fallback_test_name(named[k], k - 1)]

\* the names after "def " of the test methods, in the order of the test cases
fallback_test_methods(cases) ==
    [k \in 1..Len(cases) |-> TestPrefix \o fallback_test_name(cases[k], k - 1)]

InitFallback ==
    /\ test_cases \in SeqsUpTo(TestCases, MaxCases)
    /\ test_methods = None
    /\ IdleExcept("fb")

GenerateFallbackTests ==
    /\ test_methods = None
    /\ test_methods' = [defs |-> fallback_test_methods(test_cases)]
    /\ UNCHANGED <<test_cases, not_fb_vars>>

NextFallback == GenerateFallbackTests

SpecFallback == InitFallback /\ [][NextFallback]_vars

(***************************************************************************)
(* The locator methods of _generate_fallback_code (lines 801-810) and      *)
(* _create_method_name.  The element list is a run of plain <input>        *)
(* elements followed by a few elements drawn from a sample set; "page."    *)
(* is a text that contains the substring 'page.'.                          *)
(***************************************************************************)
PlainInput ==
    [data_testid |-> "", testid |-> "", id |-> "", aria_label |-> "", tag |-> "input",
     text |-> "", name |-> "", type |-> ""]

SampleElements ==
    [data_testid : {""}, testid : {""}, id : {"", "submit"}, aria_label : {"", "Close"},
     tag : {"", "button"}, text : {"", "Login", "page."}, name : {""}, type : {""}]

ElementLists ==
    {[k \in 1..n |-> PlainInput] \o extra :
        n \in 0..ElementLimit, extra \in SeqsUpTo(SampleElements, MaxExtraElements)}

\* re.sub(r'[^a-zA-Z0-9_]', '_', ...), re.sub(r'_+', '_', ...).strip('_'),
\* and .lower() for a text: "" when nothing is left
SafeName(str, lower) ==
    CASE str = "page." -> "page"
      [] str = "Login" -> IF lower THEN "login" ELSE "Login"
      [] OTHER -> str

\* _create_method_name: from the id, else the text (more than 2 characters),
\* else tag and type, else None.  A name is the list of its parts.
create_method_name(e) ==
    IF e.id # "" /\ SafeName(e.id, FALSE) # ""
    THEN [name |-> <<SafeName(e.id, FALSE)>>]
    ELSE IF e.text # "" /\ StrLen(SafeName(Strip(e.text), TRUE)) > 2
    THEN [name |-> <<SafeName(Strip(e.text), TRUE)>>]
    ELSE IF e.tag # ""
    THEN [name |-> IF e.type # "" THEN <<e.tag, "_", e.type>> ELSE <<e.tag>>]
    ELSE None

\* str.replace('page.', 'self.page.'): every occurrence is replaced
ReplacePage(str) == IF str = "page." THEN "self.page." ELSE str

\* the expression a locator method returns: the analyzer's expression after
\* locator.replace('page.', 'self.page.')
ReturnedExpression(loc) ==
    [receiver |-> "self.page", call |-> loc.call, arg |-> ReplacePage(loc.arg),
     extra |-> ReplacePage(loc.extra)]

\* lines 803-810: one method per element of elements[:15] that has a name
RECURSIVE fallback_locator_methods(_)
fallback_locator_methods(elems) ==
    IF elems = <<>> THEN <<>>
    ELSE LET elem == Head(elems)
             loc == analyze_element(elem)
             method_name == create_method_name(elem)
         IN  (IF method_name # None
              THEN <<[name |-> method_name.name, strategy |-> loc.strategy,
                      returns |-> ReturnedExpression(loc)]>>
              ELSE <<>>)
             \o fallback_locator_methods(Tail(elems))

\* elements[:15]
FirstElements(elems) ==
    IF Len(elems) > ElementLimit THEN SubSeq(elems, 1, ElementLimit) ELSE elems

InitFallbackLocators ==
    /\ page_elements \in ElementLists
    /\ locator_methods = None
    /\ IdleExcept("fbl")

GenerateFallbackLocators ==
    /\ locator_methods = None
    /\ locator_methods' = [defs |-> fallback_locator_methods(FirstElements(page_elements))]
    /\ UNCHANGED page_elements
    /\ UNCHANGED not_fbl_vars

NextFallbackLocators == GenerateFallbackLocators

SpecFallbackLocators == InitFallbackLocators /\ [][NextFallbackLocators]_vars

(***************************************************************************)
(* TestingAgent.explore_page and reset, with the PageExplorerTool the      *)
(* agent owns.  The agent run and the browser are the environment: the     *)
(* run calls the tool on the url or not at all, the tool extracts the page *)
(* or ends with an error, and the run's step logs expose the tool's        *)
(* observation or not.  The elements of a page are named by the call that  *)
(* extracted them; 0 is the empty list.                                    *)
(***************************************************************************)
PageUrls == {"u1", "u2"}

ToolRuns == {"not called", "extracted", "error"}

\* PageExplorerTool._async_forward: the result dictionary, cached in
\* self.last_result, or an error dictionary (nothing is cached)
page_explorer_result(target, call) == [url |-> target, elements |-> call]

ErrorOutput == [error |-> "Error during exploration"]

\* TestingAgent._extract_tool_output: the observation of the page_explorer
\* call in the step logs, else the tool's cached last_result (as it is after
\* the run), else None
extract_tool_output(tool_run, visible, target, call) ==
    IF visible /\ tool_run = "extracted" THEN page_explorer_result(target, call)
    ELSE IF visible /\ tool_run = "error" THEN ErrorOutput
    ELSE IF tool_run = "extracted" THEN page_explorer_result(target, call)
    ELSE last_result

\* lines 95-111: the ExplorationResult built from the tool output
exploration_data(tool_output, target) ==
    IF tool_output # None /\ "url" \in DOMAIN tool_output
    THEN [url |-> tool_output.url, elements |-> tool_output.elements]
    ELSE [url |-> target, elements |-> 0]

InitAgent ==
    /\ last_result = None
    /\ metrics_log = 0
    /\ explore_calls = 0
    /\ explore_url = ""
    /\ exploration = None
    /\ IdleExcept("agent")

ExplorePage ==
    /\ explore_calls < MaxExplorations
    /\ \E target \in PageUrls, tool_run \in ToolRuns, visible \in BOOLEAN :
          /\ explore_url' = target
          /\ last_result' = IF tool_run = "extracted"
                            THEN page_explorer_result(target, explore_calls + 1)
                            ELSE last_result
          /\ exploration' = exploration_data(
                                extract_tool_output(tool_run, visible, target,
                                                    explore_calls + 1),
                                target)
    /\ explore_calls' = explore_calls + 1
    /\ metrics_log' = metrics_log + 1
    /\ UNCHANGED not_agent_vars

\* TestingAgent.reset: self.metrics_log = []
Reset ==
    /\ metrics_log' = 0
    /\ UNCHANGED <<last_result, explore_calls, explore_url, exploration>>
    /\ UNCHANGED not_agent_vars

NextAgent == ExplorePage \/ Reset

SpecAgent == InitAgent /\ [][NextAgent]_vars

(***************************************************************************)
(* Two concurrent generate_code_with_llm requests with run_tests=True.     *)
(* Each request is one thread of the hosting layer; the threads share the  *)
(* file system only.  One step is one access to the runner object or to    *)
(* the file system.  The model calls and the validation between two runs   *)
(* touch neither, so a request either runs again or returns.               *)
(***************************************************************************)

\* variant: one CodeRunner object serves every request
RunnerShared(r) == 1

\* line 516: the request constructs its own CodeRunner
RunnerOf(r) == r

\* the request touches directory d: foreign when another request created it
Touches(r, d) == d # 0 /\ disk[d].exists /\ disk[d].creator # r

InitConcurrent ==
    /\ req_pc = [r \in Requests |-> "loop"]
    /\ req_runs = [r \in Requests |-> 0]
    /\ runner_temp_dir = [r \in Requests |-> 0]
    /\ test_file_path = [r \in Requests |-> 0]
    /\ req_log = [r \in Requests |-> NoLog]
    /\ req_final_log = [r \in Requests |-> NoLog]
    /\ req_result = [r \in Requests |-> NoLog]
    /\ disk = [d \in DirNames |-> NoDir]
    /\ foreign_access = FALSE
    /\ IdleExcept("conc")

\* lines 324-327: a new log, and mkdtemp creates a directory under a name
\* that does not exist and stores it in self.temp_dir
Mkdtemp(r) ==
    /\ req_pc[r] = "loop"
    /\ req_runs[r] < MaxRuns
    /\ \E d \in DirNames :
          /\ ~disk[d].exists
          /\ disk' = [disk EXCEPT ![d] = [exists |-> TRUE, creator |-> r, file |-> NoFile]]
          /\ runner_temp_dir' = [runner_temp_dir EXCEPT ![RunnerOf(r)] = d]
    /\ req_log' = [req_log EXCEPT ![r] = [req |-> r, executed |-> NoFile]]
    /\ req_pc' = [req_pc EXCEPT ![r] = "path"]
    /\ UNCHANGED <<req_runs, test_file_path, req_final_log, req_result, foreign_access>>
    /\ UNCHANGED not_conc_vars

\* lines 328-329: test_file_path is built from self.temp_dir
JoinPath(r) ==
    /\ req_pc[r] = "path"
    /\ test_file_path' = [test_file_path EXCEPT ![r] = runner_temp_dir[RunnerOf(r)]]
    /\ req_pc' = [req_pc EXCEPT ![r] = "write"]
    /\ UNCHANGED <<req_runs, runner_temp_dir, req_log, req_final_log, req_result, disk,
                   foreign_access>>
    /\ UNCHANGED not_conc_vars

\* lines 333-334: the code is written to test_file_path; open() raises when
\* the directory is gone, and the handler at 384 leads to the cleanup
WriteCode(r) ==
    /\ req_pc[r] = "write"
    /\ LET d == test_file_path[r] IN
          IF disk[d].exists
            THEN /\ disk' = [disk EXCEPT ![d].file = [req |-> r, run |-> req_runs[r] + 1]]
                 /\ foreign_access' = (foreign_access \/ Touches(r, d))
                 /\ req_pc' = [req_pc EXCEPT ![r] = "run"]
            ELSE /\ req_pc' = [req_pc EXCEPT ![r] = "cleanup"]
                 /\ UNCHANGED <<disk, foreign_access>>
    /\ UNCHANGED <<req_runs, runner_temp_dir, test_file_path, req_log, req_final_log,
                   req_result>>
    /\ UNCHANGED not_conc_vars

\* lines 358-374: pytest runs test_file_path with cwd=self.temp_dir and the
\* log records what was executed
RunPytest(r) ==
    /\ req_pc[r] = "run"
    /\ LET d == test_file_path[r]
           cwd == runner_temp_dir[RunnerOf(r)] IN
          /\ req_log' = [req_log EXCEPT ![r].executed =
                            IF disk[d].exists THEN disk[d].file ELSE NoFile]
          /\ foreign_access' = (foreign_access \/ Touches(r, d) \/ Touches(r, cwd))
    /\ req_pc' = [req_pc EXCEPT ![r] = "cleanup"]
    /\ UNCHANGED <<req_runs, runner_temp_dir, test_file_path, req_final_log, req_result,
                   disk>>
    /\ UNCHANGED not_conc_vars

\* lines 391-399 and 594-595: rmtree of self.temp_dir when it exists, a failure
\* being swallowed; run_tests returns the log and the request keeps it
Cleanup(r) ==
    /\ req_pc[r] = "cleanup"
    /\ LET d == runner_temp_dir[RunnerOf(r)] IN
          \/ /\ disk[d].exists
             /\ disk' = [disk EXCEPT ![d] = NoDir]
             /\ foreign_access' = (foreign_access \/ Touches(r, d))
          \/ /\ UNCHANGED <<disk, foreign_access>>
    /\ req_final_log' = [req_final_log EXCEPT ![r] = req_log[r]]
    /\ req_runs' = [req_runs EXCEPT ![r] = req_runs[r] + 1]
    /\ req_pc' = [req_pc EXCEPT ![r] = "loop"]
    /\ UNCHANGED <<runner_temp_dir, test_file_path, req_log, req_result>>
    /\ UNCHANGED not_conc_vars

\* lines 603-605 and 629: the request returns with its final_log
ReturnLog(r) ==
    /\ req_pc[r] = "loop"
    /\ req_result' = [req_result EXCEPT ![r] = req_final_log[r]]
    /\ req_pc' = [req_pc EXCEPT ![r] = "done"]
    /\ UNCHANGED <<req_runs, runner_temp_dir, test_file_path, req_log, req_final_log, disk,
                   foreign_access>>
    /\ UNCHANGED not_conc_vars

NextConcurrent ==
    \E r \in Requests :
        \/ Mkdtemp(r)
        \/ JoinPath(r)
        \/ WriteCode(r)
        \/ RunPytest(r)
        \/ Cleanup(r)
        \/ ReturnLog(r)

SpecConcurrent == InitConcurrent /\ [][NextConcurrent]_vars

(***************************************************************************)
(* parse_test_cases of src/parsers/test_parser.py.  The text is the list   *)
(* of blocks re.split cuts it into.  Of one block the model keeps whether  *)
(* it is long enough and its heading matches, the number in the heading,   *)
(* the test name and the first step; a name and a step are one letter,     *)
(* "A" being the upper case of "a".                                        *)
(***************************************************************************)
HeadingNumbers == {1, 7}

Blocks ==
    [matches : BOOLEAN, number : HeadingNumbers, name : {"a", "A", "b"},
     first_step : {"a", "A"}]

\* lines 18-84: one case per block that is kept, its id the heading's number
ParsedCase(b) == [id |-> b.number, name |-> b.name, first_step |-> b.first_step]

RECURSIVE ExtractCases(_)
ExtractCases(bs) ==
    IF bs = <<>> THEN <<>>
    ELSE IF Head(bs).matches
           THEN <<ParsedCase(Head(bs))>> \o ExtractCases(Tail(bs))
           ELSE ExtractCases(Tail(bs))

\* line 94: the key of a case
DedupKey(tc) == <<Lower(tc.name), Lower(tc.first_step)>>

\* lines 90-99: the first case of every key, in order
RECURSIVE Deduplicate(_, _)
Deduplicate(cases, seen) ==
    IF cases = <<>> THEN <<>>
    ELSE IF DedupKey(Head(cases)) \in seen
           THEN Deduplicate(Tail(cases), seen)
           ELSE <<Head(cases)>>
                    \o Deduplicate(Tail(cases), seen \cup {DedupKey(Head(cases))})

\* variant: the ids of the headings are kept
Renumber_Keep(cases) == cases

\* lines 103-104: tc["id"] = idx + 1
Renumber(cases) == [idx \in 1..Len(cases) |-> [cases[idx] EXCEPT !.id = idx]]

\* lines 116-135
get_placeholder_tests ==
    <<[id |-> 1, name |-> "Header Presence", first_step |-> "Navigate to page"],
      [id |-> 2, name |-> "Footer Presence", first_step |-> "Navigate to page"]>>

parse_test_cases(bs) ==
    LET unique_cases == Renumber(Deduplicate(ExtractCases(bs), {})) IN
      IF unique_cases = <<>> THEN get_placeholder_tests ELSE unique_cases

InitParse ==
    /\ blocks \in SeqsUpTo(Blocks, MaxBlocks)
    /\ parsed = None
    /\ IdleExcept("parse")

ParseTestCases ==
    /\ parsed = None
    /\ parsed' = [cases |-> parse_test_cases(blocks)]
    /\ UNCHANGED blocks
    /\ UNCHANGED not_parse_vars

NextParse == ParseTestCases

SpecParse == InitParse /\ [][NextParse]_vars


(***************************************************************************)
(* Properties                                                              *)
(***************************************************************************)

\* C1: one call of generate_code_with_llm issues at most max_retries + 1
\* calls to the model (one generation call plus at most one repair call per
\* loop iteration).
C1_RetryBound == llm_calls <= max_retries + 1

C1_Witness == pc = "done" /\ max_retries = 2 /\ llm_calls = 3 /\ attempt = 2

\* C2 (as claimed): whatever the model does, generate_code_with_llm returns
\* a non-empty, syntactically valid code string.
C2_ReturnsValidCode ==
    pc = "done" => result.code.len > 0 /\ validate_syntax(result.code)

\* C3 (as claimed): generate_code_with_llm never propagates an exception,
\* also when the harness cannot create its workspace.
C3_NoExceptionPropagates == pc # "raised"

\* The first response is unusable in the sense of C4: empty, shorter than
\* 100 characters after cleaning, or with neither an import nor a def.
FirstResponseUnusable ==
    /\ first_response # None
    /\ first_response.kind # "raise"
    /\ \/ first_response.kind = "none"
       \/ first_response.len < 100
       \/ ~first_response.hasImport /\ ~first_response.hasDef

C5_RunTestsNeverRaises ==
    /\ runner_status # "raised"
    /\ (runner_status = "returned" /\ (~last_env.write \/ last_env.proc \in {"timeout", "raise"}))
        => (last_run.errors = 1 /\ last_run.stderr # "")

\* C6 (as claimed): after every return of run_tests the temporary workspace
\* of that call no longer exists, so none is left when the next attempt
\* starts or the orchestrator returns.
C6_NoResidualWorkspace == temp_dirs = {}

\* C7 (as claimed): every log returned by run_tests satisfies
\* total_tests = passed + failed + errors + skipped.
C7_LogArithmetic ==
    last_run # None =>
        last_run.total_tests =
            last_run.passed + last_run.failed + last_run.errors + last_run.skipped

\* C8 (as claimed): a repair prompt that contains execution results contains
\* the results of executing the code blob embedded in the same prompt.
C8_PromptPairsCodeWithItsOwnLog ==
    (last_prompt # None /\ last_prompt.results # None)
        => last_prompt.results.code = last_prompt.code

\* C9: a returned log is exactly the log of the last Code Runner invocation
\* of the request, built from a fresh log: it carries that invocation's stamp
\* and holds the results of that invocation's harness report only.
C9_ReturnedLogIsLastRun ==
    (pc = "done" /\ result.log # None) =>
        /\ runner_status = "returned"
        /\ result.log = last_run
        /\ result.log.timestamp = runs
        /\ Len(result.log.test_results) = Len(last_env.lines)
        /\ result.log.passed =
              IF last_env.lines # <<>> THEN CountStatus(last_env.lines, "PASSED")
              ELSE last_env.summary.passed

C9_Witness ==
    /\ pc = "done"
    /\ result.log # None
    /\ runs >= 2
    /\ failure_seen
    /\ Len(result.log.test_results) = 1
    /\ all_passed(result.log)

\* C10 (as claimed): a failure or error observed in any execution attempt of
\* a request is reported in the returned log, even when a later attempt passes.
C10_AnyFailureReported ==
    (pc = "done" /\ failure_seen) =>
        (result.log # None /\ ~all_passed(result.log))

\* The harness report of the last invocation shows a failure or an error.
LastAttemptFailed ==
    /\ runner_status = "returned"
    /\ \/ ~last_env.write
       \/ last_env.proc \in {"timeout", "raise"}
       \/ \E i \in 1..Len(last_env.lines) : last_env.lines[i] \in {"FAILED", "ERROR"}
       \/ last_env.lines = <<>> /\ (last_env.summary.failed > 0 \/ last_env.summary.error > 0)

\* C10 (amended): a failure or error observed in the last execution attempt
\* of a request is reported in the returned log; failures of earlier attempts
\* are not carried into it.
C10_LastFailureReported ==
    (pc = "done" /\ LastAttemptFailed) =>
        (result.log # None /\ (result.log.failed > 0 \/ result.log.errors > 0))

C10_Witness ==
    /\ pc = "done"
    /\ LastAttemptFailed
    /\ runs >= 2
    /\ result.code.src = "fallback"
    /\ result.log # None
    /\ result.log.failed > 0

\* C11 (as claimed): the returned execution log is a TestExecutionLog
\* whenever run_tests is true and None whenever run_tests is false.
C11_LogIffRunTests ==
    pc = "done" => (run_tests <=> result.log # None)

\* C12 (as claimed): the validation step of the orchestrator returns ok = true
\* exactly when the syntax check passes; warnings never make ok false.
C12_OkReflectsSyntaxOnly ==
    pc \in {"execute", "decide"} => (is_valid <=> validate_syntax(code))

\* C20 (as claimed): in every loop iteration with execution enabled, the Code
\* Runner is invoked whenever the current code passes the syntax check, also
\* when the validator reported warnings for it.
C20_SyntaxValidCodeIsExecuted ==
    [][(pc = "loop" /\ pc' \in {"execute", "decide"} /\ run_tests /\ validate_syntax(code))
        => pc' = "execute"]_vars

\* The rules of C13 in their fixed sequence, as the claim words them.
RuleMatches(e, k) ==
    CASE k = 1 -> e.data_testid # "" \/ e.testid # ""
      [] k = 2 -> /\ e.id # ""
                  /\ e.id # "ember42"
                  /\ e.id # "uuid-lower-36"
      [] k = 3 -> e.aria_label # ""
      [] k = 4 -> e.tag = "button" /\ e.text \notin {"", "   "}
      [] k = 5 -> e.tag = "a" /\ e.text \notin {"", "   "}
      [] k = 6 -> e.name # ""
      [] k = 7 -> e.text \in {"Login", " Login ", "text-of-50"}
      [] k = 8 -> e.tag # ""
      [] k = 9 -> TRUE

RuleStrategy ==
    <<"TEST_ID", "ID", "ARIA", "ARIA", "ARIA", "NAME", "TEXT", "CSS", "XPATH">>

FirstRule(e) == CHOOSE k \in 1..9 : RuleMatches(e, k) /\ \A j \in 1..(k - 1) : ~RuleMatches(e, j)

\* C13: analyze_element returns the strategy of the first matching rule of
\* the fixed sequence; a test-id always gives TestId, and an id with the
\* framework prefix or the 36-character hex/hyphen shape never gives Id.
C13_FirstMatchingRuleWins ==
    analysis # None =>
        /\ analysis.strategy = RuleStrategy[FirstRule(element)]
        /\ (element.data_testid # "" \/ element.testid # "") => analysis.strategy = "TEST_ID"
        /\ element.id \in {"ember42", "uuid-lower-36"} => analysis.strategy # "ID"

C13_Witness ==
    /\ analysis # None
    /\ element.data_testid = "" /\ element.testid = ""
    /\ element.id = "uuid-lower-36"
    /\ element.aria_label = ""
    /\ element.tag = "button"
    /\ element.text = " Login "
    /\ analysis.strategy = "ARIA"

\* The refinement response passed extraction and the syntax check, in the
\* words of C15.
RefinementAccepted ==
    /\ refine_response.kind = "text"
    /\ refine_response.len >= 100
    /\ refine_response.hasImport \/ refine_response.hasDef
    /\ refine_response.syntaxOk

\* C15: apply_custom_instructions returns either model output that passed
\* extraction and the syntax check, or exactly base_code; when the output is
\* unusable or syntactically invalid or the call raises, it returns base_code.
C15_RefinementNeverDestructive ==
    refined # None =>
        /\ \/ refined = base_code
           \/ RefinementAccepted /\ refined.src = "llm" /\ refined.id = 1
        /\ ~RefinementAccepted => refined = base_code

C15_Witness ==
    /\ refined # None
    /\ refine_response.kind = "text"
    /\ refine_response.len = 100
    /\ refine_response.hasDef
    /\ ~refine_response.syntaxOk
    /\ refined = base_code
    /\ base_code.src = "llm"

\* C16: the fallback generator defines one test_-prefixed method per input
\* TestCase (N TestCases yield N definitions), also for names that are empty,
\* start with a digit or contain no identifier characters.
C16_OneTestMethodPerTestCase ==
    test_methods # None =>
        /\ Len(test_methods.defs) = Len(test_cases)
        /\ \A k \in 1..Len(test_methods.defs) :
            /\ Len(test_methods.defs[k]) > 5
            /\ SubSeq(test_methods.defs[k], 1, 5) = <<"t", "e", "s", "t", "_">>

C16_Witness ==
    /\ test_methods # None
    /\ Len(test_cases) = 2
    /\ test_cases[1] = [has_name |-> TRUE, name |-> <<"-">>]
    /\ test_cases[2] = [has_name |-> TRUE, name |-> <<"1", "a">>]
    /\ test_methods.defs[1] = <<"t", "e", "s", "t", "_", "t", "e", "s", "t", "_", "1">>
    /\ test_methods.defs[2] = <<"t", "e", "s", "t", "_", "t", "e", "s", "t", "_", "2">>

\* C17 (as claimed): every generation request eventually ends; a stall of
\* the model call or of the harness is cut off by a timeout.
C17_RequestEventuallyEnds == <>(pc \in {"done", "raised"})

\* the request is inside run_tests, between mkdtemp and the cleanup
InRunTests(r) == req_pc[r] \in {"path", "write", "run", "cleanup"}

\* C18: for any interleaving of two concurrent requests, each request uses its
\* own runner, workspace directory and log: no request reads, overwrites or
\* deletes the other's workspace, and each returns only logs of its own
\* executions.
C18_RequestsIsolated ==
    /\ ~foreign_access
    /\ \A r1, r2 \in Requests :
          r1 # r2 /\ InRunTests(r1) /\ InRunTests(r2)
              => /\ RunnerOf(r1) # RunnerOf(r2)
                 /\ runner_temp_dir[RunnerOf(r1)] # runner_temp_dir[RunnerOf(r2)]
    /\ \A r \in Requests :
          /\ InRunTests(r) => disk[runner_temp_dir[RunnerOf(r)]].creator = r
          /\ req_result[r] # NoLog
                => req_result[r].req = r /\ req_result[r].executed.req = r

\* request 1 has returned a log and left a workspace behind while request 2,
\* in its second run, is about to clean up
C18_Witness ==
    /\ req_pc[1] = "done"
    /\ req_result[1] # NoLog
    /\ \E d \in DirNames : disk[d].exists /\ disk[d].creator = 1
    /\ req_pc[2] = "cleanup"
    /\ req_runs[2] = 1

\* C19: the test cases parse_test_cases returns carry the ids 1..n in list
\* order, with no gap and no repeat, also after duplicates were removed and
\* when the placeholder cases are returned.
C19_IdsContiguous ==
    parsed # None => \A k \in 1..Len(parsed.cases) : parsed.cases[k].id = k

\* three blocks with headings numbered 7, the second a duplicate of the
\* first up to case, were parsed into two cases
C19_Witness ==
    /\ parsed # None
    /\ Len(blocks) = 3
    /\ \A k \in 1..3 : blocks[k].matches /\ blocks[k].number = 7
    /\ DedupKey(ParsedCase(blocks[1])) = DedupKey(ParsedCase(blocks[2]))
    /\ blocks[1].name # blocks[2].name
    /\ Len(parsed.cases) = 2

\* an iteration of the loop ends with this step
IterationEnds == pc \in {"execute", "decide"} /\ pc' \in {"final", "loop", "raised"}

\* the iteration's issue list is empty and execution is disabled or the
\* execution of this iteration had all tests passed
IterationClean ==
    /\ pc = "decide"
    /\ Len(static_issues \o execution_issues) = 0
    /\ ~run_tests \/ (is_valid /\ last_run # None /\ all_passed(last_run))

\* the step leaves the loop and makes no repair call
EndsLoopWithoutRepair == pc' \in {"final", "raised"} /\ llm_calls' = llm_calls

\* the step makes exactly one repair call and goes on with the loop
OneRepairCall == pc' = "loop" /\ llm_calls' = llm_calls + 1 /\ attempt' = attempt + 1

\* C21 (as claimed): a loop iteration ends the loop without a repair call if
\* and only if its issue list is empty and execution is disabled or its
\* execution had all tests passed; in every other case exactly one repair
\* call is made in that iteration.
C21_ExitIffCleanElseOneRepair ==
    [][IterationEnds =>
          /\ EndsLoopWithoutRepair <=> IterationClean
          /\ ~IterationClean => OneRepairCall]_vars

\* the same for the iterations that reach the decision at line 603
DecisionFollowsExitCondition ==
    [][pc = "decide" =>
          /\ EndsLoopWithoutRepair <=> IterationClean
          /\ ~IterationClean => OneRepairCall]_vars

\* the step is a repair call whose response _call_llm_for_code rejects (a
\* usable response always replaces the code by a new blob)
UnusableRepairResponse == pc = "decide" /\ llm_calls' = llm_calls + 1 /\ code' = code

\* C22 (as claimed): an unusable model response routes to Fallback wherever
\* it occurs: when the response of a repair call cannot be extracted, the
\* orchestrator stops repairing and returns fallback-generated code.
C22_UnusableRepairGoesToFallback ==
    [][UnusableRepairResponse => (pc' = "done" /\ result'.code.src = "fallback")]_vars

\* C23: generate_code_with_llm never returns model-produced code that fails
\* the syntax check: after the loop, code that fails the final syntax check
\* is replaced by the fallback generator's output, and the last execution
\* log obtained is returned with it.
C23_NoModelCodeWithSyntaxError ==
    pc = "done" =>
        /\ result.code.src = "llm" => validate_syntax(result.code)
        /\ (code # None /\ ~validate_syntax(code))
              => /\ result.code = generate_fallback_code(url)
                 /\ result.log = final_log

\* the code repaired after a failed execution has a syntax error: the
\* fallback code is returned together with the log of that execution
C23_Witness ==
    /\ pc = "done"
    /\ code # None
    /\ ~validate_syntax(code)
    /\ result.code.src = "fallback"
    /\ result.log # None
    /\ result.log = last_run

\* C24 (as claimed): whenever an execution attempt ends with a log that is
\* not all_passed (timeout and harness-crash logs and logs built from the
\* aggregate summary line included), the failure summary placed in the repair
\* prompt names at least one failing test; it is never 'All tests passed!'.
C24_FailureSummaryNamesFailingTest ==
    /\ (pc = "decide" /\ run_tests /\ is_valid /\ ~all_passed(final_log))
          => execution_issues = <<"test(s) failed">>
    /\ last_prompt # None
          => \A k \in 1..Len(last_prompt.issues) :
                last_prompt.issues[k] # "All tests passed!"

\* the analyzer's expression for an element, on the page object's page
AnalyzerExpression(e) ==
    [receiver |-> "self.page", call |-> analyze_element(e).call,
     arg |-> analyze_element(e).arg, extra |-> analyze_element(e).extra]

\* C25 (as claimed): for every list of PageElements, the fallback code
\* contains one locator method for every input element, returning the Locator
\* Analyzer's expression for that element.
C25_OneLocatorMethodPerElement ==
    locator_methods # None =>
        /\ Len(locator_methods.defs) = Len(page_elements)
        /\ \A k \in 1..Len(page_elements) :
              locator_methods.defs[k].returns = AnalyzerExpression(page_elements[k])

\* C26 (as claimed, does not hold): whenever generate_code_with_llm returns a non-None
\* execution log, that log was produced by executing exactly the code string
\* returned with it.
C26_ReturnedLogIsOfReturnedCode ==
    (pc = "done" /\ result.log # None) => result.log.code = result.code.id

\* C26 (amended): a returned log is the log of an execution of the returned
\* code, or it is a log that is not all_passed of model code of the same
\* request which a later repair call or the final fallback replaced: a log
\* that is all_passed always belongs to the returned code.
C26_ReturnedLogIsOfReturnedOrReplacedCode ==
    (pc = "done" /\ result.log # None) =>
        \/ result.log.code = result.code.id
        \/ /\ ~all_passed(result.log)
           /\ result.log.code \in 1..llm_calls
           /\ result.code.src = "fallback" \/ result.log.code < result.code.id

\* model code is returned with the failing log of the code it replaced
C26_Witness ==
    /\ pc = "done"
    /\ result.log # None
    /\ result.code.src = "llm"
    /\ result.log.code < result.code.id
    /\ result.log.failed > 0

\* C27 (as claimed): with execution enabled, the loop takes the success exit
\* only after an execution that counted at least one test and in which every
\* counted test passed; an execution whose output yields no test outcome at
\* all is not accepted as success.
C27_SuccessExitNeedsAPassedTest ==
    (pc = "final" /\ run_tests) =>
        /\ final_log # None
        /\ final_log.total_tests >= 1
        /\ final_log.failed = 0 /\ final_log.errors = 0

\* C28 (as claimed): in every TestExecutionLog built from per-test result
\* lines, all_passed is true exactly when every TestResult in the log has
\* passed = true, for any sequence of PASSED, FAILED, ERROR and SKIPPED lines.
C28_AllPassedAgreesWithResults ==
    (last_run # None /\ Len(last_run.test_results) > 0) =>
        (all_passed(last_run)
            <=> \A k \in 1..Len(last_run.test_results) : last_run.test_results[k].passed)

\* C29 (as claimed): for any sequence of explore_page and reset calls on one
\* TestingAgent, explore_page(U) returns data of the page U explored in that
\* call: its url is U and its elements were extracted during that call, or it
\* is the empty fallback result when extraction failed.  A result cached by an
\* earlier exploration never appears in a later call's result.
C29_ExplorationIsOfThisCall ==
    exploration # None =>
        /\ exploration.url = explore_url
        /\ exploration.elements \in {0, explore_calls}

\* C30 (as claimed): the test methods of the fallback code have pairwise
\* distinct names for any list of input TestCases, so a later method
\* definition never overrides an earlier one.
C30_TestMethodNamesDistinct ==
    test_methods # None =>
        \A j, k \in 1..Len(test_methods.defs) :
            j # k => test_methods.defs[j] # test_methods.defs[k]

====
